---- MODULE Spec2Model ----
(***************************************************************************)
(* Model of the schema builder (DataVaultGenerator.generate_model) and of  *)
(* the advisory merge (AIEnhancedClassifier.analyze_column_with_ai).       *)
(*                                                                         *)
(* A Python str is a sequence of one-character strings; a Python list is a *)
(* sequence; a float confidence is an integer number of hundredths.        *)
(***************************************************************************)
EXTENDS Integers, Sequences, FiniteSets, TLC

VARIABLES
    column_profiles,  \* the list handed to generate_model
    profiles0,        \* history: column_profiles as it was when constructed
    model,            \* the DataVaultModel under construction (NoModel before)
    pc,               \* position inside generate_model
    idx,              \* 1-based position of the running for loop
    next_oid,         \* identity of the next object a constructor creates
    returned,         \* the models returned so far, one per call
    ai_enabled,       \* AIEnhancedClassifier.ai_enabled
    ai_pc,            \* position inside analyze_column_with_ai
    pattern_profile,  \* the ColumnProfile object of the pattern pass
    pattern_only,     \* history: data_type the pattern pass computed
    pattern0,         \* history: the profile as the pattern pass returned it
    response,         \* what the advisory collaborator did
    ai_insight,       \* the AIInsight of the call
    final_profile,    \* the profile analyze_column_with_ai returns
    table,            \* the DataFrame df being classified
    sample_size,      \* AIDataClassifier.sample_size of the instance in use
    shuffle,          \* the permutations a generator seeded with 0 draws
    np_random,        \* state of the process-wide NumPy generator
    calls,            \* history: the analyze_column calls and their results
    w_pc,             \* per worker: position inside analyze_column
    w_col,            \* per worker: the col argument
    w_sample,         \* per worker: the local variable sample
    w_result,         \* per worker: what its call returned or raised
    input,            \* what the path given to main holds
    entry,            \* the batch entry point that is running
    main_pc,          \* position inside main / the batch call
    col_i,            \* number of columns the batch loop has visited
    profiles,         \* the list run_classification builds
    results,          \* the list analyze_dataframe_hybrid builds
    escaped,          \* the exception that left the batch call, if any
    exit_status,      \* status the process exited with, -1 while running
    vault,            \* the model main generated
    saved             \* whether save_results wrote the results

genVars == <<column_profiles, profiles0, model, pc, idx, next_oid, returned>>
aiVars  == <<ai_enabled, ai_pc, pattern_profile, pattern_only, pattern0, response,
             ai_insight, final_profile>>
clsVars == <<table, sample_size, shuffle, np_random, calls>>
wrkVars == <<w_pc, w_col, w_sample, w_result>>
runVars == <<input, entry, main_pc, col_i, profiles, results, escaped,
             exit_status, vault, saved>>
vars    == <<genVars, aiVars, clsVars, wrkVars, runVars>>

----------------------------------------------------------------------------
(* Bounds *)

MaxProfiles == 3
MaxCalls    == 2
MaxAnalyzeCalls == 3
MaxCols     == 2
\* the longest run of one value in a column of the sample tables
MaxRepeat   == 6

----------------------------------------------------------------------------
(* Python str operations *)

LowerLetters ==
    <<"a", "b", "c", "d", "e", "f", "g", "h", "i", "j", "k", "l", "m",
      "n", "o", "p", "q", "r", "s", "t", "u", "v", "w", "x", "y", "z">>

UpperLetters ==
    <<"A", "B", "C", "D", "E", "F", "G", "H", "I", "J", "K", "L", "M",
      "N", "O", "P", "Q", "R", "S", "T", "U", "V", "W", "X", "Y", "Z">>

DigitChars == <<"0", "1", "2", "3", "4", "5", "6", "7", "8", "9">>

\* position of an element in a list that holds it
IndexIn(c, seq) == CHOOSE k \in 1..Len(seq) : seq[k] = c

IsLower(c) == \E k \in 1..Len(LowerLetters) : LowerLetters[k] = c
IsUpper(c) == \E k \in 1..Len(UpperLetters) : UpperLetters[k] = c
IsDigit(c) == \E k \in 1..Len(DigitChars) : DigitChars[k] = c

\* str.upper() on one character
UpperChar(c) == IF IsLower(c) THEN UpperLetters[IndexIn(c, LowerLetters)] ELSE c

\* str.lower() on one character
LowerChar(c) == IF IsUpper(c) THEN LowerLetters[IndexIn(c, UpperLetters)] ELSE c

Upper(s) == [k \in 1..Len(s) |-> UpperChar(s[k])]
Lower(s) == [k \in 1..Len(s) |-> LowerChar(s[k])]

\* code point of a character (the order sorted() compares str by)
Ord(c) ==
    CASE IsUpper(c) -> 64 + IndexIn(c, UpperLetters)
      [] IsLower(c) -> 96 + IndexIn(c, LowerLetters)
      [] IsDigit(c) -> 47 + IndexIn(c, DigitChars)
      [] c = " " -> 32
      [] c = "(" -> 40
      [] c = "+" -> 43
      [] c = "-" -> 45
      [] c = "." -> 46
      [] c = "@" -> 64
      [] c = "_" -> 95

MinLen(s, t) == IF Len(s) < Len(t) THEN Len(s) ELSE Len(t)

\* s < t for Python str
StrLess(s, t) ==
    \E k \in 1..(MinLen(s, t) + 1) :
        /\ \A j \in 1..(k - 1) : s[j] = t[j]
        /\ \/ k > Len(s) /\ k <= Len(t)
           \/ k <= Len(s) /\ k <= Len(t) /\ Ord(s[k]) < Ord(t[k])

\* position at which x goes into the sorted list seq: behind everything <= x
InsertPos(x, seq) == Cardinality({k \in 1..Len(seq) : ~StrLess(x, seq[k])})

Insert(x, seq) ==
    SubSeq(seq, 1, InsertPos(x, seq)) \o <<x>>
        \o SubSeq(seq, InsertPos(x, seq) + 1, Len(seq))

RECURSIVE SortedList(_)
\* sorted(list of str)
SortedList(seq) ==
    IF seq = <<>> THEN <<>>
    ELSE Insert(seq[Len(seq)], SortedList(SubSeq(seq, 1, Len(seq) - 1)))

RECURSIVE Join(_, _)
\* sep.join(list of str)
Join(seq, sep) ==
    IF seq = <<>> THEN <<>>
    ELSE IF Len(seq) = 1 THEN seq[1]
    ELSE seq[1] \o sep \o Join(Tail(seq), sep)

\* [f(x) for x in seq]
MapSeq(seq, F(_)) == [k \in 1..Len(seq) |-> F(seq[k])]

\* the elements of a list, as a set
Range(seq) == {seq[k] : k \in 1..Len(seq)}

Reverse(seq) == [k \in 1..Len(seq) |-> seq[Len(seq) + 1 - k]]

----------------------------------------------------------------------------
(* ColumnProfile, DataType, PIILevel *)

DataType == {"IDENTIFIER", "BUSINESS_KEY", "DATE", "NUMERIC", "TEXT", "BOOLEAN"}
PIILevel == {"NONE", "LOW", "MEDIUM", "HIGH"}

ColumnProfile(name, dtype, pk, bk, refs, pii, ratio, samples) ==
    [suggested_name  |-> name,
     data_type       |-> dtype,
     is_primary_key  |-> pk,
     is_business_key |-> bk,
     references      |-> refs,
     pii_level       |-> pii,
     unique_ratio    |-> ratio,
     sample_values   |-> samples]

n_a       == <<"a">>
n_b       == <<"b">>
n_A       == <<"A">>
n_id      == <<"i", "d">>
n_day     == <<"d", "a", "y">>
n_a_b     == <<"a", "_", "b">>
n_a_b_sat == <<"a", "_", "b", "_", "s", "a", "t">>

\* The profiles the input lists of generate_model are built from: keys,
\* reference holders, descriptive columns, names that differ by case only,
\* names that contain underscores, a type set by an advisory override on a
\* non-key column, a reference that differs from the column's own name by
\* case only, and a key whose name differs from another key's by case only.
\* unique_ratio is in hundredths.
ProfilePool ==
    { ColumnProfile(n_a, "IDENTIFIER", TRUE, FALSE, <<>>, "NONE", 100, <<"7", "8">>),
      ColumnProfile(n_b, "TEXT", FALSE, FALSE, <<>>, "NONE", 60, <<"x", "y">>),
      ColumnProfile(n_a, "NUMERIC", FALSE, FALSE, <<n_b>>, "NONE", 50, <<"1", "2">>),
      ColumnProfile(n_b, "NUMERIC", FALSE, FALSE, <<n_a>>, "NONE", 50, <<"1", "2">>),
      ColumnProfile(n_a_b, "TEXT", FALSE, TRUE, <<>>, "NONE", 40, <<"NY", "LA">>),
      ColumnProfile(n_a_b_sat, "IDENTIFIER", TRUE, FALSE, <<>>, "NONE", 100, <<"7", "8">>),
      ColumnProfile(n_A, "TEXT", FALSE, FALSE, <<>>, "HIGH", 100, <<"u@v.w">>),
      ColumnProfile(n_b, "BUSINESS_KEY", FALSE, FALSE, <<>>, "LOW", 60, <<"x", "y">>),
      ColumnProfile(n_a, "TEXT", FALSE, FALSE, <<n_A>>, "NONE", 60, <<"x", "y">>),
      ColumnProfile(n_A, "TEXT", FALSE, TRUE, <<>>, "NONE", 40, <<"NY", "LA">>) }

\* Profiles the pattern pass (AIDataClassifier.analyze_column) can return:
\* never BUSINESS_KEY, is_primary_key exactly for IDENTIFIER.
PatternProfiles ==
    { ColumnProfile(n_id, "IDENTIFIER", TRUE, FALSE, <<>>, "NONE", 100, <<"7", "8">>),
      ColumnProfile(n_day, "DATE", FALSE, FALSE, <<>>, "NONE", 50, <<"1", "1">>),
      ColumnProfile(n_a, "NUMERIC", FALSE, FALSE, <<n_b>>, "NONE", 100, <<"1", "2">>),
      ColumnProfile(n_a, "BOOLEAN", FALSE, FALSE, <<>>, "NONE", 100, <<"true", "0">>),
      ColumnProfile(n_b, "TEXT", FALSE, TRUE, <<>>, "MEDIUM", 40, <<"Al Bo", "Cy Di">>),
      ColumnProfile(n_b, "TEXT", FALSE, FALSE, <<>>, "HIGH", 100, <<"u@v.w">>) }

RECURSIVE SeqsUpTo(_, _)
\* all lists of at most n elements of S
SeqsUpTo(S, n) ==
    IF n = 0 THEN {<<>>}
    ELSE SeqsUpTo(S, n - 1)
             \cup {Append(q, x) : q \in {r \in SeqsUpTo(S, n - 1) : Len(r) = n - 1},
                                  x \in S}

----------------------------------------------------------------------------
(* Hub, Link, Satellite, DataVaultModel *)

NoModel == [none |-> TRUE]

Hub(oid, name, business_keys) ==
    [oid           |-> oid,
     name          |-> name,
     table_type    |-> "hub",
     columns       |-> <<>>,
     business_keys |-> business_keys,
     hash_key      |-> Upper(name) \o <<"_", "H", "K">>]

Link(oid, name, hub_references) ==
    [oid            |-> oid,
     name           |-> name,
     table_type     |-> "link",
     columns        |-> <<>>,
     hub_references |-> hub_references,
     hash_key       |-> Join(hub_references, <<"_">>) \o <<"_", "L", "K">>]

Satellite(oid, name, parent_table, columns) ==
    [oid            |-> oid,
     name           |-> name,
     table_type     |-> "satellite",
     columns        |-> columns,
     parent_table   |-> parent_table,
     satellite_type |-> "business",
     hash_key       |-> parent_table \o <<"_", "H", "K">>]

DataVaultModel(n) ==
    [hubs                   |-> <<>>,
     links                  |-> <<>>,
     satellites             |-> <<>>,
     total_columns_analyzed |-> n,
     pii_satellites_created |-> 0]

add_hub(m, hub)   == [m EXCEPT !.hubs = Append(@, hub)]
add_link(m, link) == [m EXCEPT !.links = Append(@, link)]
add_satellite(m, satellite) ==
    [m EXCEPT !.satellites = Append(@, satellite),
              !.pii_satellites_created =
                  IF satellite.satellite_type = "pii" THEN @ + 1 ELSE @]

\* [t.name for t in tables]
Names(tables) == MapSeq(tables, LAMBDA t : t.name)

----------------------------------------------------------------------------
(* DataVaultGenerator.generate_model *)

\* the condition of the Hub pass
\* a variant that also makes a Hub of every column that holds references
QualifiesForHubOrReferences(profile) ==
    \/ profile.is_primary_key
    \/ profile.is_business_key
    \/ profile.data_type \in {"IDENTIFIER", "BUSINESS_KEY"}
    \/ profile.references # <<>>

\* the condition of the Hub pass
QualifiesForHub(profile) ==
    \/ profile.is_primary_key
    \/ profile.is_business_key
    \/ profile.data_type \in {"IDENTIFIER", "BUSINESS_KEY"}

\* a variant that tests only that the attribute exists
HoldsReferencesAttribute(profile) == TRUE

\* the condition of the Link pass: the profile has a non-empty references
HoldsReferences(profile) == profile.references # <<>>

\* the condition of the Satellite pass
IsDescriptive(profile) ==
    ~(profile.is_primary_key \/ profile.is_business_key
        \/ profile.references # <<>>)

\* a variant that leaves the names in discovery order
linked_hubs_unsorted(profile) ==
    <<Upper(profile.suggested_name)>> \o MapSeq(profile.references, Upper)

linked_hubs(profile) ==
    SortedList(<<Upper(profile.suggested_name)>>
                   \o MapSeq(profile.references, Upper))

\* a variant that names the column itself as the Satellite's parent
NewSatelliteOwnParent(oid, parent_hub, profile) ==
    Satellite(oid,
              parent_hub.name \o <<"_">> \o Upper(profile.suggested_name)
                  \o <<"_", "S", "A", "T">>,
              Upper(profile.suggested_name),
              <<profile.suggested_name>>)

NewSatellite(oid, parent_hub, profile) ==
    Satellite(oid,
              parent_hub.name \o <<"_">> \o Upper(profile.suggested_name)
                  \o <<"_", "S", "A", "T">>,
              parent_hub.name,
              <<profile.suggested_name>>)

\* a variant that omits the emptiness test before model.hubs[0]
HasHubsUnchecked(m) == TRUE

\* truth value of model.hubs
HasHubs(m) == Len(m.hubs) > 0

\* a variant that lets a later profile of the same Hub name replace the
\* Hub's business_keys
HubStepModelLastWins(m, profile, oid) ==
    IF QualifiesForHub(profile)
    THEN LET hub_name == Upper(profile.suggested_name)
         IN  IF hub_name \notin Range(Names(m.hubs))
             THEN add_hub(m, Hub(oid, hub_name, <<profile.suggested_name>>))
             ELSE [m EXCEPT !.hubs =
                      [k \in 1..Len(m.hubs) |->
                          IF m.hubs[k].name = hub_name
                          THEN [m.hubs[k] EXCEPT
                                   !.business_keys = <<profile.suggested_name>>]
                          ELSE m.hubs[k]]]
    ELSE m

\* one iteration of the Hub loop
HubStepModel(m, profile, oid) ==
    IF QualifiesForHub(profile)
    THEN LET hub_name == Upper(profile.suggested_name)
         IN  IF hub_name \notin Range(Names(m.hubs))
             THEN add_hub(m, Hub(oid, hub_name, <<profile.suggested_name>>))
             ELSE m
    ELSE m

\* a variant that also creates the Hub of the referencing column when the
\* model has none of that name
LinkStepModelAddsHub(m, profile, oid) ==
    IF HoldsReferences(profile)
    THEN LET hubs_     == linked_hubs(profile)
             link_name == Join(hubs_, <<"_">>)
             own       == Upper(profile.suggested_name)
             with_hub  == IF own \notin Range(Names(m.hubs))
                          THEN add_hub(m, Hub(oid + 100, own,
                                              <<profile.suggested_name>>))
                          ELSE m
         IN  IF link_name \notin Range(Names(m.links))
             THEN add_link(with_hub, Link(oid, link_name, hubs_))
             ELSE with_hub
    ELSE m

\* one iteration of the Link loop
LinkStepModel(m, profile, oid) ==
    IF HoldsReferences(profile)
    THEN LET hubs_     == linked_hubs(profile)
             link_name == Join(hubs_, <<"_">>)
         IN  IF link_name \notin Range(Names(m.links))
             THEN add_link(m, Link(oid, link_name, hubs_))
             ELSE m
    ELSE m

\* a variant that attaches the column to the Hub created last
SatStepModelLastHub(m, profile, oid) ==
    IF IsDescriptive(profile) /\ HasHubs(m)
    THEN LET parent_hub == m.hubs[Len(m.hubs)]
             satellite  == NewSatellite(oid, parent_hub, profile)
         IN  IF satellite.name \notin Range(Names(m.satellites))
             THEN add_satellite(m, satellite)
             ELSE m
    ELSE m

\* one iteration of the Satellite loop, model.hubs[0] being defined
SatStepModel(m, profile, oid) ==
    IF IsDescriptive(profile) /\ HasHubs(m)
    THEN LET parent_hub == m.hubs[1]
             satellite  == NewSatellite(oid, parent_hub, profile)
         IN  IF satellite.name \notin Range(Names(m.satellites))
             THEN add_satellite(m, satellite)
             ELSE m
    ELSE m

RECURSIVE LinkPass(_, _, _)
\* the whole Link loop over the list ps
LinkPass(m, ps, oid) ==
    IF ps = <<>> THEN m
    ELSE LinkPass(LinkStepModel(m, Head(ps), oid), Tail(ps), oid + 1)

\* a variant that keeps one model on the generator and reuses it
FreshModelCached(n) == IF model = NoModel THEN DataVaultModel(n) ELSE model

\* the model object a call starts from
FreshModel(n) == DataVaultModel(n)

GenerateModelEnter ==
    /\ pc \in {"idle", "done"}
    /\ Len(returned) < MaxCalls
    /\ model' = FreshModel(Len(column_profiles))
    /\ pc' = "hubs"
    /\ idx' = 1
    /\ UNCHANGED <<column_profiles, profiles0, next_oid, returned>>

HubPassStep ==
    /\ pc = "hubs"
    /\ idx <= Len(column_profiles)
    /\ model' = HubStepModel(model, column_profiles[idx], next_oid)
    /\ idx' = idx + 1
    /\ next_oid' = IF model' # model THEN next_oid + 1 ELSE next_oid
    /\ UNCHANGED <<column_profiles, profiles0, pc, returned>>

HubPassEnd ==
    /\ pc = "hubs"
    /\ idx > Len(column_profiles)
    /\ pc' = "links"
    /\ idx' = 1
    /\ UNCHANGED <<column_profiles, profiles0, model, next_oid, returned>>

\* a variant that upper-cases the profile's references in place
LinkPassStepWritesInput ==
    /\ pc = "links"
    /\ idx <= Len(column_profiles)
    /\ model' = LinkStepModel(model, column_profiles[idx], next_oid)
    /\ idx' = idx + 1
    /\ next_oid' = IF model' # model THEN next_oid + 1 ELSE next_oid
    /\ column_profiles' =
           [column_profiles EXCEPT ![idx].references = MapSeq(@, Upper)]
    /\ UNCHANGED <<profiles0, pc, returned>>

LinkPassStep ==
    /\ pc = "links"
    /\ idx <= Len(column_profiles)
    /\ model' = LinkStepModel(model, column_profiles[idx], next_oid)
    /\ idx' = idx + 1
    /\ next_oid' = IF model' # model THEN next_oid + 1 ELSE next_oid
    /\ UNCHANGED <<column_profiles, profiles0, pc, returned>>

LinkPassEnd ==
    /\ pc = "links"
    /\ idx > Len(column_profiles)
    /\ pc' = "sats"
    /\ idx' = 1
    /\ UNCHANGED <<column_profiles, profiles0, model, next_oid, returned>>

\* model.hubs[0] raises IndexError on an empty list
SatPassStep ==
    /\ pc = "sats"
    /\ idx <= Len(column_profiles)
    /\ IF IsDescriptive(column_profiles[idx]) /\ HasHubs(model)
              /\ Len(model.hubs) = 0
       THEN /\ pc' = "raised"
            /\ UNCHANGED <<model, idx, next_oid>>
       ELSE /\ model' = SatStepModel(model, column_profiles[idx], next_oid)
            /\ idx' = idx + 1
            /\ next_oid' = IF model' # model THEN next_oid + 1 ELSE next_oid
            /\ pc' = pc
    /\ UNCHANGED <<column_profiles, profiles0, returned>>

\* return model
SatPassEnd ==
    /\ pc = "sats"
    /\ idx > Len(column_profiles)
    /\ pc' = "done"
    /\ returned' = Append(returned, model)
    /\ UNCHANGED <<column_profiles, profiles0, model, idx, next_oid>>

----------------------------------------------------------------------------
(* AIEnhancedClassifier: the advisory response *)

\* confidence values are hundredths: 0.8 is 80
CONFIDENCE_THRESHOLD == 80
DEFAULT_CONFIDENCE   == 50
FALLBACK_CONFIDENCE  == 60

\* JSON values of a payload; Absent marks a key the object does not have
JNum(n) == [t |-> "num", v |-> n]
JStr(x) == [t |-> "str", v |-> x]
JNull   == [t |-> "null"]
Absent  == [t |-> "absent"]

\* DataType.value
TypeValue(dt) ==
    CASE dt = "IDENTIFIER"   -> "identifier"
      [] dt = "BUSINESS_KEY" -> "business_key"
      [] dt = "DATE"         -> "date"
      [] dt = "NUMERIC"      -> "numeric"
      [] dt = "TEXT"         -> "text"
      [] dt = "BOOLEAN"      -> "boolean"

TypeNames == {TypeValue(dt) : dt \in DataType}

\* cls_map.get(key, DataType.TEXT), key being any JSON scalar
cls_map_get(key) ==
    IF key.t = "str" /\ key.v \in TypeNames
    THEN CHOOSE dt \in DataType : TypeValue(dt) = key.v
    ELSE "TEXT"

\* payload.get(key, default)
payload_get(payload, key, default) ==
    IF payload[key].t = "absent" THEN default ELSE payload[key]

Exc(type, msg) == [type |-> type, msg |-> msg]
Ok(v)          == [ok |-> TRUE, value |-> v]
Raise(e)       == [ok |-> FALSE, exc |-> e]

\* float(x)
FloatOf(x) ==
    CASE x.t = "num"  -> Ok(x.v)
      [] x.t = "str"  -> IF x.v = "0.9" THEN Ok(90)
                         ELSE Raise(Exc("ValueError", "could not convert string to float"))
      [] x.t = "null" -> Raise(Exc("TypeError", "float() argument must be a string or a real number"))

Payloads ==
    [confidence_score         : {Absent, JNull, JStr("high"), JStr("0.9"),
                                 JNum(50), JNum(80), JNum(81), JNum(100)},
     suggested_classification : {Absent, JNull, JStr("uuid"), JStr("Identifier")}
                                    \cup {JStr(x) : x \in TypeNames},
     data_quality_notes       : {Absent, JStr("ok")},
     reasoning                : {Absent, JStr("because")}]

\* what json.loads can be given: invalid text, a non-object value, an object
Bodies ==
    {[json |-> "invalid"], [json |-> "array"]}
        \cup {[json |-> "object", payload |-> pl] : pl \in Payloads}

\* resp.text: the body, bare or inside a markdown fence; fence "other" is a
\* fence with a language tag other than json
Texts == [fence : {"none", "json", "plain", "other"}, body : Bodies]

\* the outcomes of self.model.generate_content(...)
Responses ==
    {[kind |-> "exception", exc |-> e] :
         e \in {Exc("ServiceUnavailable", "unreachable"),
                Exc("PermissionDenied", "unauthenticated"),
                Exc("DeadlineExceeded", "timeout")}}
        \cup {[kind |-> "text", text |-> t] : t \in Texts}

NoResponse == [kind |-> "none"]

\* the text left after stripping the markdown fence: a tag other than json
\* stays in front of the body
StripFence(text) ==
    IF text.fence = "other"
    THEN [prefix |-> "python", body |-> text.body]
    ELSE [prefix |-> "", body |-> text.body]

\* json.loads
JsonLoads(stripped) ==
    IF stripped.prefix # "" \/ stripped.body.json = "invalid"
    THEN Raise(Exc("JSONDecodeError", "Expecting value"))
    ELSE Ok(stripped.body)

AIInsight(conf, meaning, notes, improvements, cls, reasoning) ==
    [confidence_score       |-> conf,
     business_meaning       |-> meaning,
     data_quality_notes     |-> notes,
     suggested_improvements |-> improvements,
     ai_classification      |-> cls,
     reasoning              |-> reasoning]

NoInsight == [none |-> TRUE]

fallback_insight(profile, msg) ==
    AIInsight(FALLBACK_CONFIDENCE, <<"Pattern: ", TypeValue(profile.data_type)>>,
              msg, "", profile.data_type, "Pattern-only")

\* the AIInsight(...) built from a parsed object
InsightOfPayload(payload) ==
    LET conf == FloatOf(payload_get(payload, "confidence_score",
                                    JNum(DEFAULT_CONFIDENCE)))
    IN  IF ~conf.ok THEN conf
        ELSE Ok(AIInsight(
                 conf.value,
                 "",
                 payload_get(payload, "data_quality_notes", JStr("")).v,
                 "",
                 cls_map_get(payload_get(payload, "suggested_classification",
                                         JStr("text"))),
                 payload_get(payload, "reasoning", JStr("")).v))

\* the body of the try block of _gemini_insight
TryBody(resp) ==
    IF resp.kind = "exception" THEN Raise(resp.exc)
    ELSE LET loaded == JsonLoads(StripFence(resp.text))
         IN  IF ~loaded.ok THEN loaded
             ELSE IF loaded.value.json # "object"
                  THEN Raise(Exc("AttributeError", "object has no attribute 'get'"))
                  ELSE InsightOfPayload(loaded.value.payload)

\* a variant that catches parse errors only
CaughtByExceptParseOnly(e) == e.type \in {"JSONDecodeError", "ValueError"}

\* except Exception
CaughtByExcept(e) == TRUE

\* a variant that overrides at the threshold too
mergeAtThreshold(pattern, insight) ==
    IF insight.confidence_score >= CONFIDENCE_THRESHOLD
           /\ insight.ai_classification # pattern.data_type
    THEN [pattern EXCEPT !.data_type = insight.ai_classification]
    ELSE pattern

\* a variant that keeps is_primary_key in line with the new data_type
mergeSetsKeyFlag(pattern, insight) ==
    IF insight.confidence_score > CONFIDENCE_THRESHOLD
           /\ insight.ai_classification # pattern.data_type
    THEN [pattern EXCEPT !.data_type = insight.ai_classification,
                         !.is_primary_key =
                             (insight.ai_classification = "IDENTIFIER")]
    ELSE pattern

\* _merge: the profile object after the call
merge(pattern, insight) ==
    IF insight.confidence_score > CONFIDENCE_THRESHOLD
           /\ insight.ai_classification # pattern.data_type
    THEN [pattern EXCEPT !.data_type = insight.ai_classification]
    ELSE pattern

----------------------------------------------------------------------------
(* AIEnhancedClassifier.analyze_column_with_ai *)

NoProfile == [none |-> TRUE]

\* pattern_profile = self.pattern.analyze_column(df, col)
PatternPass ==
    /\ ai_pc = "start"
    /\ \E p \in PatternProfiles :
           /\ pattern_profile' = p
           /\ pattern_only' = p.data_type
           /\ pattern0' = p
    /\ ai_pc' = "pattern_done"
    /\ UNCHANGED <<ai_enabled, response, ai_insight, final_profile>>

\* if not self.ai_enabled: return pattern_profile, fallback
ReturnDisabled ==
    /\ ai_pc = "pattern_done"
    /\ ~ai_enabled
    /\ ai_insight' = fallback_insight(pattern_profile, "AI disabled")
    /\ final_profile' = pattern_profile
    /\ ai_pc' = "returned"
    /\ UNCHANGED <<ai_enabled, pattern_profile, pattern_only, pattern0, response>>

\* ai_insight = self._gemini_insight(df, col, pattern_profile)
GeminiInsight ==
    /\ ai_pc = "pattern_done"
    /\ ai_enabled
    /\ \E r \in Responses :
           /\ response' = r
           /\ LET res == TryBody(r)
              IN  IF res.ok
                  THEN ai_insight' = res.value /\ ai_pc' = "insight"
                  ELSE IF CaughtByExcept(res.exc)
                       THEN /\ ai_insight' = fallback_insight(pattern_profile, res.exc.msg)
                            /\ ai_pc' = "insight"
                       ELSE /\ ai_insight' = NoInsight
                            /\ ai_pc' = "raised"
    /\ UNCHANGED <<ai_enabled, pattern_profile, pattern_only, pattern0, final_profile>>

\* final_profile = self._merge(pattern_profile, ai_insight); return
MergeAndReturn ==
    /\ ai_pc = "insight"
    /\ pattern_profile' = merge(pattern_profile, ai_insight)
    /\ final_profile' = pattern_profile'
    /\ ai_pc' = "returned"
    /\ UNCHANGED <<ai_enabled, pattern_only, pattern0, response, ai_insight>>

----------------------------------------------------------------------------
(* _gemini_insight with the advisory collaborator as a separate party *)

\* resp = self.model.generate_content(prompt, safety_settings={}): the
\* request is sent with no timeout and the caller blocks
GeminiCall ==
    /\ ai_pc = "pattern_done"
    /\ ai_enabled
    /\ ai_pc' = "waiting"
    /\ UNCHANGED <<ai_enabled, pattern_profile, pattern_only, pattern0, response,
                   ai_insight, final_profile>>

\* the collaborator answers or fails; nothing obliges it to
AdvisoryResponds ==
    /\ ai_pc = "waiting"
    /\ \E r \in Responses : response' = r
    /\ ai_pc' = "responded"
    /\ UNCHANGED <<ai_enabled, pattern_profile, pattern_only, pattern0, ai_insight,
                   final_profile>>

\* the rest of the try block and the except clause
GeminiHandle ==
    /\ ai_pc = "responded"
    /\ LET res == TryBody(response)
       IN  IF res.ok
           THEN ai_insight' = res.value /\ ai_pc' = "insight"
           ELSE IF CaughtByExcept(res.exc)
                THEN /\ ai_insight' = fallback_insight(pattern_profile, res.exc.msg)
                     /\ ai_pc' = "insight"
                ELSE /\ ai_insight' = NoInsight
                     /\ ai_pc' = "raised"
    /\ UNCHANGED <<ai_enabled, pattern_profile, pattern_only, pattern0, response,
                   final_profile>>

----------------------------------------------------------------------------
(* Regular expressions of AIDataClassifier, on str as character sequences *)

IsWord(c) == IsLower(c) \/ IsUpper(c) \/ IsDigit(c) \/ c = "_"

\* every character of s[from..to] satisfies the class; the slice may be empty
AllDigits(s, from, to)  == \A k \in from..to : IsDigit(s[k])
AllLower(s, from, to)   == \A k \in from..to : IsLower(s[k])
AllUpper(s, from, to)   == \A k \in from..to : IsUpper(s[k])

\* lit occurs in s at position k, ignoring case
OccursAtCI(s, lit, k) ==
    /\ k >= 1
    /\ k + Len(lit) - 1 <= Len(s)
    /\ \A j \in 1..Len(lit) : LowerChar(s[k + j - 1]) = LowerChar(lit[j])

\* lit occurs in s at position k
OccursAt(s, lit, k) ==
    /\ k >= 1
    /\ k + Len(lit) - 1 <= Len(s)
    /\ \A j \in 1..Len(lit) : s[k + j - 1] = lit[j]

\* re.search(lit + "$", s, re.IGNORECASE) for a literal lit
EndsWithCI(s, lit) == OccursAtCI(s, lit, Len(s) - Len(lit) + 1)

\* re.search(lit, s, re.IGNORECASE) for a literal lit
ContainsCI(s, lit) == \E k \in 1..Len(s) : OccursAtCI(s, lit, k)

\* lit in s
Contains(s, lit) == \E k \in 1..Len(s) : OccursAt(s, lit, k)

\* ^-?\d+(\.\d+)?$
MatchNumeric(s) ==
    LET t == IF Len(s) > 0 /\ s[1] = "-" THEN Tail(s) ELSE s
    IN  /\ Len(t) > 0
        /\ \/ AllDigits(t, 1, Len(t))
           \/ \E k \in 2..(Len(t) - 1) :
                  /\ t[k] = "."
                  /\ AllDigits(t, 1, k - 1)
                  /\ AllDigits(t, k + 1, Len(t))

\* sample.str.lower().isin(["true", "false", "0", "1"])
MatchBoolean(s) ==
    Lower(s) \in {<<"t", "r", "u", "e">>, <<"f", "a", "l", "s", "e">>,
                  <<"0">>, <<"1">>}

\* ^[A-Z]{2,4}$|^[A-Z][0-9]{1,3}$
MatchCode(s) ==
    /\ Len(s) \in 2..4
    /\ \/ AllUpper(s, 1, Len(s))
       \/ IsUpper(s[1]) /\ AllDigits(s, 2, Len(s))

\* ^[\w.+-]+@[\w-]+\.[\w.-]+$
MatchEmail(s) ==
    \E i \in 2..Len(s) : \E j \in (i + 2)..(Len(s) - 1) :
        /\ s[i] = "@"
        /\ s[j] = "."
        /\ \A k \in 1..(i - 1) : IsWord(s[k]) \/ s[k] \in {".", "+", "-"}
        /\ \A k \in (i + 1)..(j - 1) : IsWord(s[k]) \/ s[k] = "-"
        /\ \A k \in (j + 1)..Len(s) : IsWord(s[k]) \/ s[k] \in {".", "-"}

\* ^\d{3}-\d{2}-\d{4}$
MatchSSN(s) ==
    /\ Len(s) = 11
    /\ s[4] = "-"
    /\ s[7] = "-"
    /\ AllDigits(s, 1, 3)
    /\ AllDigits(s, 5, 6)
    /\ AllDigits(s, 8, 11)

\* ^\d{4}[-\s]?\d{4}[-\s]?\d{4}[-\s]?\d{4}$
MatchCreditCard(s) ==
    \E a, b, c \in {0, 1} :
        /\ Len(s) = 16 + a + b + c
        /\ AllDigits(s, 1, 4)
        /\ a = 1 => s[5] \in {"-", " "}
        /\ AllDigits(s, 5 + a, 8 + a)
        /\ b = 1 => s[9 + a] \in {"-", " "}
        /\ AllDigits(s, 9 + a + b, 12 + a + b)
        /\ c = 1 => s[13 + a + b] \in {"-", " "}
        /\ AllDigits(s, 13 + a + b + c, 16 + a + b + c)

\* ^\+?1?\d{9,15}$
MatchPhone(s) ==
    LET t == IF Len(s) > 0 /\ s[1] = "+" THEN Tail(s) ELSE s
    IN  /\ AllDigits(t, 1, Len(t))
        /\ \/ Len(t) \in 9..15
           \/ Len(t) = 16 /\ t[1] = "1"

\* ^[A-Z][a-z]+ [A-Z][a-z]+$
MatchFullName(s) ==
    \E i \in 3..(Len(s) - 2) :
        /\ s[i] = " "
        /\ IsUpper(s[1])
        /\ AllLower(s, 2, i - 1)
        /\ IsUpper(s[i + 1])
        /\ AllLower(s, i + 2, Len(s))

StreetWords ==
    {<<"S", "t">>, <<"A", "v", "e">>, <<"R", "d">>, <<"D", "r">>,
     <<"B", "l", "v", "d">>}

\* ^\d{1,5} .+ (St|Ave|Rd|Dr|Blvd)   (str.match: anchored at the start only)
MatchAddress(s) ==
    \E n \in 1..5 : \E m \in (n + 3)..Len(s) :
        /\ n + 1 <= Len(s)
        /\ AllDigits(s, 1, n)
        /\ s[n + 1] = " "
        /\ s[m] = " "
        /\ \E w \in StreetWords : OccursAt(s, w, m + 1)

\* the column name used as a pattern: an unmatched "(" is not a valid
\* regular expression, "." matches any character, the other characters of
\* the model's headers are literals
PatternCompiles(pat) == \A k \in 1..Len(pat) : pat[k] # "("

\* re.search(rf"{pat}$", s, re.IGNORECASE)
SearchNameAtEnd(pat, s) ==
    IF ~PatternCompiles(pat)
    THEN Raise(Exc("re.error", "missing ), unterminated subpattern"))
    ELSE Ok(/\ Len(pat) <= Len(s)
            /\ \A j \in 1..Len(pat) :
                   \/ pat[j] = "."
                   \/ LowerChar(pat[j]) = LowerChar(s[Len(s) - Len(pat) + j]))

RECURSIVE SubNonAlnum(_, _)
\* re.sub(r"[^0-9a-zA-Z]+", "_", s); inRun: the previous character was
\* replaced already
SubNonAlnum(s, inRun) ==
    IF s = <<>> THEN <<>>
    ELSE IF IsLower(s[1]) \/ IsUpper(s[1]) \/ IsDigit(s[1])
         THEN <<s[1]>> \o SubNonAlnum(Tail(s), FALSE)
         ELSE IF inRun THEN SubNonAlnum(Tail(s), TRUE)
              ELSE <<"_">> \o SubNonAlnum(Tail(s), TRUE)

\* suggested_name = re.sub(r"[^0-9a-zA-Z]+", "_", col).lower()
SuggestedName(col) == Lower(SubNonAlnum(col, FALSE))

----------------------------------------------------------------------------
(* pandas DataFrame: a list of named columns of equally many cells *)

NaN        == [t |-> "nan"]
StrCell(x) == [t |-> "str", v |-> x]
IntCell(n) == [t |-> "int", v |-> n]

Column(name, values) == [name |-> name, values |-> values]

RECURSIVE DigitsOf(_)
\* the decimal digits of a natural number
DigitsOf(n) ==
    IF n < 10 THEN <<DigitChars[n + 1]>>
    ELSE DigitsOf(n \div 10) \o <<DigitChars[(n % 10) + 1]>>

\* str(cell), as .astype(str) applies it
PyStr(cell) ==
    IF cell.t = "int"
    THEN IF cell.v < 0 THEN <<"-">> \o DigitsOf(0 - cell.v) ELSE DigitsOf(cell.v)
    ELSE cell.v

\* df.columns
Headers(df) == [k \in 1..Len(df) |-> df[k].name]

\* len(df)
NumRows(df) == IF df = <<>> THEN 0 ELSE Len(df[1].values)

\* df[col], col being a column of df
ColumnNamed(df, col) == df[CHOOSE k \in 1..Len(df) : df[k].name = col].values

RECURSIVE DropNa(_)
\* series.dropna()
DropNa(values) ==
    IF values = <<>> THEN <<>>
    ELSE IF values[1].t = "nan" THEN DropNa(Tail(values))
         ELSE <<values[1]>> \o DropNa(Tail(values))

\* df[col].dropna().astype(str)
StrSeries(df, col) == MapSeq(DropNa(ColumnNamed(df, col)), PyStr)

\* series.sample(n, random_state=...): the first n positions of the
\* permutation the generator draws for a series of this length; order maps
\* each length to that permutation
SampleOf(series, n, order) ==
    [k \in 1..n |-> series[order[Len(series)][k]]]

Min2(a, b) == IF a < b THEN a ELSE b

----------------------------------------------------------------------------
(* AIDataClassifier.analyze_column *)

DEFAULT_SAMPLE_SIZE == 1000

\* sample.nunique()
NUnique(sample) == Cardinality(Range(sample))

\* unique_ratio > num/den, < num/den; the ratio of an empty sample is 0
RatioAbove(sample, num, den) ==
    Len(sample) > 0 /\ den * NUnique(sample) > num * Len(sample)
RatioBelow(sample, num, den) ==
    Len(sample) = 0 \/ den * NUnique(sample) < num * Len(sample)

\* unique_ratio in hundredths
UniqueRatio(sample) ==
    IF Len(sample) = 0 THEN 0 ELSE (100 * NUnique(sample)) \div Len(sample)

DateWords == {<<"d", "a", "t", "e">>, <<"d", "a", "y">>, <<"y", "e", "a", "r">>}

\* a variant that tests the boolean literals before the numeric ones
DetectDataTypeBooleanFirst(col, sample) ==
    IF RatioAbove(sample, 9, 10) /\ EndsWithCI(col, <<"i", "d">>)
    THEN "IDENTIFIER"
    ELSE IF \E w \in DateWords : ContainsCI(col, w)
    THEN "DATE"
    ELSE IF \A k \in 1..Len(sample) : MatchBoolean(sample[k])
    THEN "BOOLEAN"
    ELSE IF \A k \in 1..Len(sample) : MatchNumeric(sample[k])
    THEN "NUMERIC"
    ELSE "TEXT"

\* step 3: the data type by pattern, first match wins
DetectDataType(col, sample) ==
    IF RatioAbove(sample, 9, 10) /\ EndsWithCI(col, <<"i", "d">>)
    THEN "IDENTIFIER"
    ELSE IF \E w \in DateWords : ContainsCI(col, w)
    THEN "DATE"
    ELSE IF \A k \in 1..Len(sample) : MatchNumeric(sample[k])
    THEN "NUMERIC"
    ELSE IF \A k \in 1..Len(sample) : MatchBoolean(sample[k])
    THEN "BOOLEAN"
    ELSE "TEXT"

BusinessSuffixes == {<<"c", "o", "d", "e">>,
                      <<"t", "y", "p", "e">>,
                      <<"s", "t", "a", "t", "u", "s">>,
                      <<"c", "a", "t", "e", "g", "o", "r", "y">>,
                      <<"c", "l", "a", "s", "s">>,
                      <<"g", "r", "o", "u", "p">>,
                      <<"r", "e", "g", "i", "o", "n">>}

\* a variant whose fallback rule does not test the data type
DetectBusinessKeyAnyType(col, sample, data_type) ==
    \/ \E w \in BusinessSuffixes : EndsWithCI(col, w)
    \/ ContainsCI(col, <<"d", "e", "p", "t">>)
    \/ RatioBelow(sample, 1, 2)

\* _detect_business_key
DetectBusinessKey(col, sample, data_type) ==
    \/ \E w \in BusinessSuffixes : EndsWithCI(col, w)
    \/ ContainsCI(col, <<"d", "e", "p", "t">>)
    \/ /\ data_type = "TEXT"
       /\ RatioBelow(sample, 3, 10)
       /\ Len(sample) > 10
       /\ 2 * Cardinality({k \in 1..Len(sample) : MatchCode(sample[k])})
              > Len(sample)
    \/ /\ data_type = "TEXT"
       /\ RatioBelow(sample, 1, 10)
       /\ NUnique(sample) < 20
    \/ /\ data_type = "TEXT"
       /\ RatioBelow(sample, 1, 2)

\* len(df[[col, other_col]].drop_duplicates())
UniquePairs(df, col, other_col) ==
    Cardinality({<<ColumnNamed(df, col)[r], ColumnNamed(df, other_col)[r]>> :
                     r \in 1..NumRows(df)})

\* heuristic 2: value overlap above 0.7
OverlapHigh(sample, other_sample) ==
    /\ Len(other_sample) > 0
    /\ Len(sample) > 0
    /\ 10 * Cardinality(Range(sample) \cap Range(other_sample))
           > 7 * Cardinality(Range(sample))

\* heuristic 3: cardinality relationship
CardinalityMatch(df, col, other_col, sample, other_sample) ==
    /\ Len(other_sample) > 0
    /\ 10 * NUnique(sample) >= 8 * NUnique(other_sample)
    /\ UniquePairs(df, col, other_col) = NUnique(sample)

RECURSIVE ForeignKeysFrom(_, _, _, _, _)
\* the for loop of _detect_foreign_keys from column k on, references being
\* the list built so far
ForeignKeysFrom(df, col, sample, k, references) ==
    IF k > Len(df) THEN Ok(references)
    ELSE LET other_col == df[k].name
         IN  IF other_col = col
             THEN ForeignKeysFrom(df, col, sample, k + 1, references)
             ELSE LET found == SearchNameAtEnd(other_col, col)
                      other_sample == StrSeries(df, other_col)
                  IN  IF ~found.ok THEN found
                      ELSE IF \/ found.value
                              \/ OverlapHigh(sample, other_sample)
                              \/ CardinalityMatch(df, col, other_col, sample,
                                                  other_sample)
                           THEN ForeignKeysFrom(df, col, sample, k + 1,
                                                Append(references, other_col))
                           ELSE ForeignKeysFrom(df, col, sample, k + 1,
                                                references)

\* _detect_foreign_keys
DetectForeignKeys(df, col, sample) == ForeignKeysFrom(df, col, sample, 1, <<>>)

LowPiiNames == {<<"n", "a", "m", "e">>,
                 <<"f", "i", "r", "s", "t">>,
                 <<"l", "a", "s", "t">>,
                 <<"a", "d", "d", "r", "e", "s", "s">>,
                 <<"c", "i", "t", "y">>,
                 <<"z", "i", "p">>}

\* _detect_pii
DetectPii(sample, col) ==
    IF \E k \in 1..Len(sample) :
           \/ MatchEmail(sample[k])
           \/ MatchSSN(sample[k])
           \/ MatchCreditCard(sample[k])
           \/ MatchPhone(sample[k])
    THEN "HIGH"
    ELSE IF \E k \in 1..Len(sample) :
                MatchFullName(sample[k]) \/ MatchAddress(sample[k])
    THEN "MEDIUM"
    ELSE IF \E w \in LowPiiNames : Contains(Lower(col), w)
    THEN "LOW"
    ELSE "NONE"

\* a variant that returns the whole sample as sample_values
AnalyzeFromSampleUncapped(df, col, sample) ==
    LET data_type  == DetectDataType(col, sample)
        references == DetectForeignKeys(df, col, sample)
    IN  IF ~references.ok THEN references
        ELSE Ok(ColumnProfile(
                 SuggestedName(col),
                 data_type,
                 data_type = "IDENTIFIER",
                 DetectBusinessKey(col, sample, data_type),
                 references.value,
                 DetectPii(sample, col),
                 UniqueRatio(sample),
                 sample))

\* analyze_column from step 2 on, the sample being drawn
AnalyzeFromSample(df, col, sample) ==
    LET data_type  == DetectDataType(col, sample)
        references == DetectForeignKeys(df, col, sample)
    IN  IF ~references.ok THEN references
        ELSE Ok(ColumnProfile(
                 SuggestedName(col),
                 data_type,
                 data_type = "IDENTIFIER",
                 DetectBusinessKey(col, sample, data_type),
                 references.value,
                 DetectPii(sample, col),
                 UniqueRatio(sample),
                 SubSeq(sample, 1, Min2(5, Len(sample)))))

\* step 1: series and sample; order is the order the generator seeded with
\* random_state=0 draws
DrawSample(df, col, size, order) ==
    SampleOf(StrSeries(df, col), Min2(Len(StrSeries(df, col)), size), order)

\* analyze_column: df[col] raises KeyError for a name that is no column
AnalyzeColumn(df, col, size, order) ==
    IF col \notin Range(Headers(df))
    THEN Raise(Exc("KeyError", col))
    ELSE AnalyzeFromSample(df, col, DrawSample(df, col, size, order))

----------------------------------------------------------------------------
(* The tables the classifier is run on *)

c_id   == Column(<<"i", "d">>, <<IntCell(1), IntCell(2), IntCell(3)>>)
c_zip  == Column(<<"z", "i", "p">>,
                 <<StrCell(<<"u", "@", "v", ".", "w">>), StrCell(<<"x">>),
                   StrCell(<<"x">>)>>)
c_b_   == Column(<<"b", "(">>, <<StrCell(<<"x">>), StrCell(<<"y">>), StrCell(<<"x">>)>>)
c_day  == Column(<<"d", "a", "y">>, <<NaN, NaN, NaN>>)
c_dept == Column(<<"d", "e", "p", "t">>,
                 <<StrCell(<<"N", "Y">>), StrCell(<<"L", "A">>),
                   StrCell(<<"N", "Y">>)>>)

\* Columns of three rows: integer keys, a column with one email value under
\* a name holding a LOW keyword, a header that is no valid regular
\* expression, a column of missing values only, a low-cardinality code.
ColumnPool == {c_id, c_zip, c_b_, c_day, c_dept}

\* a name that is no header of any table
MissingName == <<"n", "o">>

RECURSIVE TablesOf(_, _)
\* the tables of at most n columns with distinct headers
TablesOf(pool, n) ==
    IF n = 0 THEN {<<>>}
    ELSE LET shorter == TablesOf(pool, n - 1)
         IN  shorter \cup
             {Append(t, c) : t \in {u \in shorter : Len(u) = n - 1},
                             c \in pool}

Tables == {t \in TablesOf(ColumnPool, MaxCols) :
               \A j, k \in 1..Len(t) : t[j].name = t[k].name => j = k}

\* the sample sizes of the classifiers: smaller than the tables and the
\* default
SampleSizes == {Len(c_id.values) - 1, DEFAULT_SAMPLE_SIZE}

\* the permutations of 1..n
PermutationsOf(n) ==
    {f \in [1..n -> 1..n] : \A j, k \in 1..n : f[j] = f[k] => j = k}

\* the lengths of the series the tables give: columns with and without
\* rows, missing values dropped
SeriesLengths == {0} \cup {Len(DropNa(c.values)) : c \in ColumnPool}

\* what a generator seeded with random_state=0 can draw: one permutation
\* for each series length, the same at every call
Shuffles ==
    {f \in [SeriesLengths -> UNION {PermutationsOf(n) : n \in SeriesLengths}] :
         \A n \in SeriesLengths : f[n] \in PermutationsOf(n)}

\* n cells holding v
Repeat(v, n) == [k \in 1..n |-> StrCell(v)]

\* header names: one ending in id, one holding a date keyword, one holding
\* a business-key keyword, one holding none of them
SampleNames == {<<"i", "d">>, <<"d", "a", "y">>, <<"d", "e", "p", "t">>, <<"a">>}

\* cell values: a literal both numeric and boolean, a boolean one, a short
\* code, a text that is none of them
SampleValues == {<<"1">>, <<"t", "r", "u", "e">>, <<"N", "Y">>, <<"x">>}

\* one-column tables of up to 2 * MaxRepeat rows: a run of one value
\* followed by no, one or MaxRepeat cells of another
SampleTables ==
    {<<Column(name, Repeat(v1, n1) \o Repeat(v2, n2))>> :
         name \in SampleNames, v1 \in SampleValues, v2 \in SampleValues,
         n1 \in 0..MaxRepeat, n2 \in {0, 1, MaxRepeat}}

\* two of the orders a seeded generator can draw, for every length of these
\* tables: the rows as they are and the rows reversed
SampleShuffles ==
    {[n \in 0..(2 * MaxRepeat) |-> [k \in 1..n |-> k]],
     [n \in 0..(2 * MaxRepeat) |-> [k \in 1..n |-> n + 1 - k]]}

----------------------------------------------------------------------------
(* Calls of AIDataClassifier.analyze_column *)

\* the entry of the history for one call
CallRecord(size, col, result) ==
    [sample_size |-> size, col |-> col, result |-> result]

\* a variant that samples without random_state: the draw depends on the
\* process-wide generator and advances it
AnalyzeColumnCallUnseeded ==
    /\ Len(calls) < MaxAnalyzeCalls
    /\ \E col \in Range(Headers(table)) \cup {MissingName} :
           LET order == [n \in DOMAIN shuffle |->
                            [k \in 1..n |->
                                shuffle[n][((k - 1 + np_random) % n) + 1]]]
           IN  calls' = Append(calls,
                               CallRecord(sample_size, col,
                                          AnalyzeColumn(table, col, sample_size,
                                                        order)))
    /\ np_random' = np_random + 1
    /\ UNCHANGED <<table, sample_size, shuffle>>

\* classifier.analyze_column(df, col), on any instance constructed with
\* sample_size: an instance holds nothing else
AnalyzeColumnCall ==
    /\ Len(calls) < MaxAnalyzeCalls
    /\ \E col \in Range(Headers(table)) \cup {MissingName} :
           calls' = Append(calls,
                           CallRecord(sample_size, col,
                                      AnalyzeColumn(table, col, sample_size,
                                                    shuffle)))
    /\ UNCHANGED <<table, sample_size, shuffle, np_random>>

----------------------------------------------------------------------------
(* analyze_column called by concurrent workers on one classifier and table *)

Workers == {"w1", "w2"}

NoResult == [none |-> TRUE]

\* a variant that keeps the sample on the classifier instance, where every
\* worker's call reads it
WorkerSampleShared(w) ==
    /\ w_pc[w] \in {"idle", "done"}
    /\ \E col \in Range(Headers(table)) \cup {MissingName} :
           /\ w_col' = [w_col EXCEPT ![w] = col]
           /\ IF col \notin Range(Headers(table))
              THEN /\ w_result' = [w_result EXCEPT
                                      ![w] = Raise(Exc("KeyError", col))]
                   /\ w_pc' = [w_pc EXCEPT ![w] = "done"]
                   /\ UNCHANGED w_sample
              ELSE /\ w_sample' = [v \in Workers |->
                                      DrawSample(table, col, sample_size, shuffle)]
                   /\ w_result' = [w_result EXCEPT ![w] = NoResult]
                   /\ w_pc' = [w_pc EXCEPT ![w] = "sampled"]
    /\ UNCHANGED clsVars

\* worker w enters analyze_column and runs step 1: series and sample are
\* locals of the call
WorkerSample(w) ==
    /\ w_pc[w] \in {"idle", "done"}
    /\ \E col \in Range(Headers(table)) \cup {MissingName} :
           /\ w_col' = [w_col EXCEPT ![w] = col]
           /\ IF col \notin Range(Headers(table))
              THEN /\ w_result' = [w_result EXCEPT
                                      ![w] = Raise(Exc("KeyError", col))]
                   /\ w_pc' = [w_pc EXCEPT ![w] = "done"]
                   /\ UNCHANGED w_sample
              ELSE /\ w_sample' = [w_sample EXCEPT
                                      ![w] = DrawSample(table, col, sample_size,
                                                        shuffle)]
                   /\ w_result' = [w_result EXCEPT ![w] = NoResult]
                   /\ w_pc' = [w_pc EXCEPT ![w] = "sampled"]
    /\ UNCHANGED clsVars

\* worker w runs steps 2 to 7 and returns
WorkerFinish(w) ==
    /\ w_pc[w] = "sampled"
    /\ w_result' = [w_result EXCEPT
                       ![w] = AnalyzeFromSample(table, w_col[w], w_sample[w])]
    /\ w_pc' = [w_pc EXCEPT ![w] = "done"]
    /\ UNCHANGED <<w_col, w_sample>>
    /\ UNCHANGED clsVars

----------------------------------------------------------------------------
(* pipeline.py: validate_input_file, run_classification, main, and        *)
(* AIEnhancedClassifier.analyze_dataframe_hybrid                           *)

RUN_SAMPLE_SIZE == 1000

\* the table of a file that holds a header line only
HeaderOnly(t) == [k \in 1..Len(t) |-> Column(t[k].name, <<>>)]

\* what the input path can hold: nothing, a file without data, a file that
\* is no CSV, a CSV file with or without rows
Inputs ==
    {[kind |-> "missing"], [kind |-> "no_data"], [kind |-> "unparsable"]}
        \cup {[kind |-> "csv", table |-> t] : t \in Tables \ {<<>>}}
        \cup {[kind |-> "csv", table |-> HeaderOnly(t)] : t \in Tables \ {<<>>}}

NoInput == [kind |-> "none"]

NoException == [none |-> TRUE]

\* pd.read_csv(file_path)
ReadCsv(inp) ==
    CASE inp.kind = "no_data" ->
             Raise(Exc("EmptyDataError", "No columns to parse from file"))
      [] inp.kind = "unparsable" ->
             Raise(Exc("ParserError", "Error tokenizing data"))
      [] inp.kind = "csv" -> Ok(inp.table)

\* a variant that looks at the columns only
DfEmptyColumnsOnly(t) == Len(t) = 0

\* table.empty: any axis of the table has length 0
DfEmpty(t) == Len(t) = 0 \/ NumRows(t) = 0

\* validate_input_file
ValidateInputFile(inp) ==
    IF inp.kind = "missing"
    THEN Raise(Exc("FileNotFoundError", "Input file not found"))
    ELSE LET read == ReadCsv(inp)
         IN  IF ~read.ok
             THEN IF read.exc.type = "EmptyDataError"
                  THEN Raise(Exc("ValueError",
                                 "CSV file is empty or contains no data"))
                  ELSE Raise(Exc("ValueError", "Error parsing CSV file"))
             ELSE IF DfEmpty(read.value)
                  THEN Raise(Exc("ValueError", "CSV file is empty"))
                  ELSE IF Len(read.value) = 0
                       THEN Raise(Exc("ValueError", "CSV file has no columns"))
                       ELSE read

RECURSIVE HubPass(_, _, _)
\* the Hub loop over a list of profiles
HubPass(m, ps, oid) ==
    IF ps = <<>> THEN m
    ELSE HubPass(HubStepModel(m, Head(ps), oid), Tail(ps), oid + 1)

RECURSIVE SatPass(_, _, _)
\* the Satellite loop over a list of profiles
SatPass(m, ps, oid) ==
    IF ps = <<>> THEN m
    ELSE SatPass(SatStepModel(m, Head(ps), oid), Tail(ps), oid + 1)

\* generator.generate_model(profiles, model_name)
GenerateModelOf(ps) ==
    SatPass(LinkPass(HubPass(FreshModel(Len(ps)), ps, 1),
                     ps, Len(ps) + 1),
            ps, 2 * Len(ps) + 1)

\* main, step 1, and the except clause of main when it raises
MainValidate ==
    /\ entry = "main"
    /\ main_pc = "start"
    /\ LET loaded == ValidateInputFile(input)
       IN  IF loaded.ok
           THEN /\ table' = loaded.value
                /\ main_pc' = "classify"
                /\ UNCHANGED exit_status
           ELSE /\ main_pc' = "exited"
                /\ exit_status' = 1
                /\ UNCHANGED table
    /\ UNCHANGED <<input, entry, col_i, profiles, results, escaped, vault,
                   saved, sample_size, shuffle, np_random, calls>>

\* one iteration of the loop of run_classification: try, except, continue
RunClassificationStep ==
    /\ entry \in {"main", "run_classification"}
    /\ main_pc = "classify"
    /\ col_i < Len(table)
    /\ LET profile == AnalyzeColumn(table, Headers(table)[col_i + 1],
                                    RUN_SAMPLE_SIZE, shuffle)
       IN  profiles' = IF profile.ok THEN Append(profiles, profile.value)
                       ELSE profiles
    /\ col_i' = col_i + 1
    /\ UNCHANGED <<input, entry, main_pc, results, escaped, exit_status,
                   vault, saved, clsVars>>

\* return profiles
RunClassificationEnd ==
    /\ entry \in {"main", "run_classification"}
    /\ main_pc = "classify"
    /\ col_i = Len(table)
    /\ main_pc' = IF entry = "main" THEN "generate" ELSE "returned"
    /\ UNCHANGED <<input, entry, col_i, profiles, results, escaped,
                   exit_status, vault, saved, clsVars>>

\* main, step 3
MainGenerate ==
    /\ main_pc = "generate"
    /\ vault' = GenerateModelOf(profiles)
    /\ main_pc' = "save"
    /\ UNCHANGED <<input, entry, col_i, profiles, results, escaped,
                   exit_status, saved, clsVars>>

\* main, step 4: save_results writes the files or fails on the file system
MainSave ==
    /\ main_pc = "save"
    /\ \E written \in BOOLEAN :
           /\ saved' = written
           /\ exit_status' = IF written THEN 0 ELSE 1
    /\ main_pc' = "exited"
    /\ UNCHANGED <<input, entry, col_i, profiles, results, escaped, vault,
                   clsVars>>

\* the advisory outcomes the batch is run against: a failure, a body that
\* is no JSON, an overriding and a non-overriding proposal
BatchResponses ==
    {r \in Responses :
        \/ r.kind = "exception" /\ r.exc.type = "ServiceUnavailable"
        \/ /\ r.kind = "text"
           /\ r.text.fence = "none"
           /\ \/ r.text.body.json = "invalid"
              \/ /\ r.text.body.json = "object"
                 /\ r.text.body.payload.confidence_score
                        \in {JNum(50), JNum(100)}
                 /\ r.text.body.payload.suggested_classification
                        = JStr("identifier")
                 /\ r.text.body.payload.data_quality_notes = Absent
                 /\ r.text.body.payload.reasoning = Absent}

\* one iteration of the loop of analyze_dataframe_hybrid: the call of
\* analyze_column_with_ai is not inside a try block
HybridStep ==
    /\ entry = "hybrid"
    /\ main_pc = "hybrid"
    /\ col_i < Len(table)
    /\ LET pattern == AnalyzeColumn(table, Headers(table)[col_i + 1], sample_size,
                                    shuffle)
       IN  IF ~pattern.ok
           THEN /\ escaped' = pattern.exc
                /\ main_pc' = "raised"
                /\ UNCHANGED <<results, col_i>>
           ELSE IF ~ai_enabled
           THEN /\ results' = Append(results,
                                     <<pattern.value,
                                       fallback_insight(pattern.value,
                                                        "AI disabled")>>)
                /\ col_i' = col_i + 1
                /\ UNCHANGED <<escaped, main_pc>>
           ELSE \E r \in BatchResponses :
                    LET res == TryBody(r)
                    IN  IF ~res.ok /\ ~CaughtByExcept(res.exc)
                        THEN /\ escaped' = res.exc
                             /\ main_pc' = "raised"
                             /\ UNCHANGED <<results, col_i>>
                        ELSE LET insight ==
                                     IF res.ok THEN res.value
                                     ELSE fallback_insight(pattern.value,
                                                           res.exc.msg)
                             IN  /\ results' =
                                        Append(results,
                                               <<merge(pattern.value, insight),
                                                 insight>>)
                                 /\ col_i' = col_i + 1
                                 /\ UNCHANGED <<escaped, main_pc>>
    /\ UNCHANGED <<input, entry, profiles, exit_status, vault, saved, clsVars>>

\* return results
HybridEnd ==
    /\ entry = "hybrid"
    /\ main_pc = "hybrid"
    /\ col_i = Len(table)
    /\ main_pc' = "returned"
    /\ UNCHANGED <<input, entry, col_i, profiles, results, escaped,
                   exit_status, vault, saved, clsVars>>

----------------------------------------------------------------------------
(* Specifications *)

GenIdle ==
    /\ column_profiles = <<>>
    /\ profiles0 = <<>>
    /\ model = NoModel
    /\ pc = "off"
    /\ idx = 0
    /\ next_oid = 1
    /\ returned = <<>>

AIIdle ==
    /\ ai_enabled = FALSE
    /\ ai_pc = "off"
    /\ pattern_profile = NoProfile
    /\ pattern_only = "TEXT"
    /\ pattern0 = NoProfile
    /\ response = NoResponse
    /\ ai_insight = NoInsight
    /\ final_profile = NoProfile

IdentityShuffle == [n \in SeriesLengths |-> [k \in 1..n |-> k]]

ClsIdle ==
    /\ table = <<>>
    /\ sample_size = DEFAULT_SAMPLE_SIZE
    /\ shuffle = IdentityShuffle
    /\ np_random = 0
    /\ calls = <<>>

WrkIdle ==
    /\ w_pc = [w \in Workers |-> "off"]
    /\ w_col = [w \in Workers |-> <<>>]
    /\ w_sample = [w \in Workers |-> <<>>]
    /\ w_result = [w \in Workers |-> NoResult]

RunIdle ==
    /\ input = NoInput
    /\ entry = "none"
    /\ main_pc = "off"
    /\ col_i = 0
    /\ profiles = <<>>
    /\ results = <<>>
    /\ escaped = NoException
    /\ exit_status = -1
    /\ vault = NoModel
    /\ saved = FALSE

\* a generator and a list of profiles, before generate_model is called
Init ==
    /\ column_profiles \in SeqsUpTo(ProfilePool, MaxProfiles)
    /\ profiles0 = column_profiles
    /\ model = NoModel
    /\ pc = "idle"
    /\ idx = 0
    /\ next_oid = 1
    /\ returned = <<>>
    /\ AIIdle
    /\ ClsIdle
    /\ WrkIdle
    /\ RunIdle

Next ==
    /\ \/ GenerateModelEnter
       \/ HubPassStep
       \/ HubPassEnd
       \/ LinkPassStep
       \/ LinkPassEnd
       \/ SatPassStep
       \/ SatPassEnd
    /\ UNCHANGED <<aiVars, clsVars, wrkVars, runVars>>

Spec == Init /\ [][Next]_vars

\* a classifier constructed with or without an API key
InitAI ==
    /\ ai_enabled \in BOOLEAN
    /\ ai_pc = "start"
    /\ pattern_profile = NoProfile
    /\ pattern_only = "TEXT"
    /\ pattern0 = NoProfile
    /\ response = NoResponse
    /\ ai_insight = NoInsight
    /\ final_profile = NoProfile
    /\ GenIdle
    /\ ClsIdle
    /\ WrkIdle
    /\ RunIdle

NextAI ==
    /\ \/ PatternPass
       \/ ReturnDisabled
       \/ GeminiInsight
       \/ MergeAndReturn
    /\ UNCHANGED <<genVars, clsVars, wrkVars, runVars>>

SpecAI == InitAI /\ [][NextAI]_vars

\* the steps of analyze_column_with_ai that the interpreter itself takes
AICodeStep ==
    /\ \/ PatternPass
       \/ ReturnDisabled
       \/ GeminiCall
       \/ GeminiHandle
       \/ MergeAndReturn
    /\ UNCHANGED <<genVars, clsVars, wrkVars, runVars>>

NextAIWait ==
    \/ AICodeStep
    \/ AdvisoryResponds /\ UNCHANGED <<genVars, clsVars, wrkVars, runVars>>

\* the interpreter keeps running the call; the collaborator is not bound to
\* answer
SpecAIWait == InitAI /\ [][NextAIWait]_vars /\ WF_vars(AICodeStep)

\* a table, a classifier and the draws of the seeded generator, before any
\* call of analyze_column
InitClassifier ==
    /\ table \in Tables
    /\ sample_size \in SampleSizes
    /\ shuffle \in Shuffles
    /\ np_random = 0
    /\ calls = <<>>
    /\ GenIdle
    /\ AIIdle
    /\ WrkIdle
    /\ RunIdle

NextClassifier ==
    /\ AnalyzeColumnCall
    /\ UNCHANGED <<genVars, aiVars, wrkVars, runVars>>

SpecClassifier == InitClassifier /\ [][NextClassifier]_vars

\* the classifier run on one-column tables long enough for the ratio
\* thresholds and the cap of sample_values
InitSample ==
    /\ table \in SampleTables
    /\ sample_size \in SampleSizes
    /\ shuffle \in SampleShuffles
    /\ np_random = 0
    /\ calls = <<>>
    /\ GenIdle
    /\ AIIdle
    /\ WrkIdle
    /\ RunIdle

SpecSample == InitSample /\ [][NextClassifier]_vars

\* one classifier and one table shared by the workers
InitWorkers ==
    /\ table \in Tables
    /\ sample_size \in SampleSizes
    /\ shuffle \in Shuffles
    /\ np_random = 0
    /\ calls = <<>>
    /\ w_pc = [w \in Workers |-> "idle"]
    /\ w_col = [w \in Workers |-> <<>>]
    /\ w_sample = [w \in Workers |-> <<>>]
    /\ w_result = [w \in Workers |-> NoResult]
    /\ GenIdle
    /\ AIIdle
    /\ RunIdle

NextWorkers ==
    /\ \E w \in Workers :
           \/ WorkerSample(w)
           \/ WorkerFinish(w)
    /\ UNCHANGED <<genVars, aiVars, runVars>>

SpecWorkers == InitWorkers /\ [][NextWorkers]_vars

\* main started on an input path, or a batch entry point called on a table
InitPipeline ==
    /\ entry \in {"main", "run_classification", "hybrid"}
    /\ IF entry = "main"
       THEN /\ input \in Inputs
            /\ table = <<>>
            /\ main_pc = "start"
       ELSE /\ input = NoInput
            /\ table \in Tables
            /\ main_pc = IF entry = "hybrid" THEN "hybrid" ELSE "classify"
    /\ ai_enabled \in (IF entry = "hybrid" THEN BOOLEAN ELSE {FALSE})
    /\ sample_size \in (IF entry = "hybrid" THEN SampleSizes
                                             ELSE {DEFAULT_SAMPLE_SIZE})
    /\ shuffle \in Shuffles
    /\ np_random = 0
    /\ calls = <<>>
    /\ col_i = 0
    /\ profiles = <<>>
    /\ results = <<>>
    /\ escaped = NoException
    /\ exit_status = -1
    /\ vault = NoModel
    /\ saved = FALSE
    /\ ai_pc = "off"
    /\ pattern_profile = NoProfile
    /\ pattern_only = "TEXT"
    /\ pattern0 = NoProfile
    /\ response = NoResponse
    /\ ai_insight = NoInsight
    /\ final_profile = NoProfile
    /\ GenIdle
    /\ WrkIdle

NextPipeline ==
    /\ \/ MainValidate
       \/ RunClassificationStep
       \/ RunClassificationEnd
       \/ MainGenerate
       \/ MainSave
       \/ HybridStep
       \/ HybridEnd
    /\ UNCHANGED <<genVars, aiVars, wrkVars>>

SpecPipeline == InitPipeline /\ [][NextPipeline]_vars

----------------------------------------------------------------------------
(* Properties of generate_model *)

AllTables(m) == m.hubs \o m.links \o m.satellites
Oids(m)      == {t.oid : t \in Range(AllTables(m))}
HubNames(m)  == Range(Names(m.hubs))
LinkNames(m) == Range(Names(m.links))
SatNames(m)  == Range(Names(m.satellites))

\* C1: every Satellite's parent_table is the name of a Hub or Link of the
\* same model, and that parent was in the model before the step that added
\* the Satellite.
C1_NoDanglingSatellite ==
    /\ [](model # NoModel =>
            \A s \in Range(model.satellites) :
                s.parent_table \in HubNames(model) \cup LinkNames(model))
    /\ [][(model # NoModel /\ model' # NoModel) =>
            \A s \in Range(model'.satellites) \ Range(model.satellites) :
                s.parent_table \in HubNames(model) \cup LinkNames(model)]_vars

C1_Witness ==
    /\ pc = "done"
    /\ Len(model.satellites) >= 2

\* C2: in the returned model every name in a Link's hub_references is the
\* name of a Hub of the model.
C2_LinkReferencesAreHubs ==
    pc = "done" =>
        \A l \in Range(model.links) :
            Range(l.hub_references) \subseteq HubNames(model)

\* C3: in the returned model no two tables of hubs + links + satellites have
\* names that are equal ignoring case.
C3_TableNamesUnique ==
    pc = "done" =>
        LET all == AllTables(model)
        IN  \A j, k \in 1..Len(all) :
                j # k => Lower(all[j].name) # Lower(all[k].name)

\* each of the two profiles references exactly the other one
MutualReferences(p, q) ==
    /\ p.references = <<q.suggested_name>>
    /\ q.references = <<p.suggested_name>>
    /\ p.suggested_name # q.suggested_name

\* C4: for two profiles that reference each other the model has exactly one
\* Link, and the Link pass over the reversed list gives one Link of the same
\* name and the same hub_references.
C4_LinkOrderIndependent ==
    (pc = "done" /\ Len(column_profiles) = 2
        /\ MutualReferences(column_profiles[1], column_profiles[2])) =>
        LET other == LinkPass(DataVaultModel(2), Reverse(column_profiles), 1).links
        IN  /\ Len(model.links) = 1
            /\ Len(other) = 1
            /\ other[1].name = model.links[1].name
            /\ other[1].hub_references = model.links[1].hub_references

C4_Witness ==
    /\ pc = "done"
    /\ Len(column_profiles) = 2
    /\ MutualReferences(column_profiles[1], column_profiles[2])
    /\ Len(model.links) = 1

\* C5: the models two calls return for the same list have the same Hub, Link
\* and Satellite name sets, and share no table object.
C5_IdempotentNaming ==
    \A j, k \in 1..Len(returned) :
        j < k =>
            /\ HubNames(returned[j]) = HubNames(returned[k])
            /\ LinkNames(returned[j]) = LinkNames(returned[k])
            /\ SatNames(returned[j]) = SatNames(returned[k])
            /\ Oids(returned[j]) \cap Oids(returned[k]) = {}

C5_Witness ==
    /\ Len(returned) = 2
    /\ Len(returned[2].hubs) >= 1
    /\ Len(returned[2].links) >= 1
    /\ Len(returned[2].satellites) >= 1

\* C6: generate_model never changes the list of profiles it was given, nor
\* any field of a profile in it.
C6_InputUnchanged == column_profiles = profiles0

C6_Witness ==
    /\ pc = "done"
    /\ Len(returned) = 2
    /\ Len(column_profiles) = 3
    /\ Len(model.links) >= 1
    /\ column_profiles = profiles0

\* no pass acts on the profile: it is no key, holds no references, and the
\* model has no Hub a Satellite could be attached to
Unmatched(profile, m) ==
    /\ ~QualifiesForHub(profile)
    /\ ~HoldsReferences(profile)
    /\ ~(IsDescriptive(profile) /\ Len(m.hubs) > 0)

\* C7: generate_model never raises, for the empty list too, and a profile no
\* pass acts on is carried by no Hub and no Satellite of the returned model.
C7_Total ==
    /\ pc # "raised"
    /\ pc = "done" =>
           /\ returned[Len(returned)] = model
           /\ \A k \in 1..Len(column_profiles) :
                  Unmatched(column_profiles[k], model) =>
                      /\ \A h \in Range(model.hubs) :
                             column_profiles[k].suggested_name
                                 \notin Range(h.business_keys)
                      /\ \A s \in Range(model.satellites) :
                             column_profiles[k].suggested_name
                                 \notin Range(s.columns)

C7_Witness ==
    /\ pc = "done"
    /\ Len(column_profiles) >= 2
    /\ Len(model.links) >= 1
    /\ \E k \in 1..Len(column_profiles) : Unmatched(column_profiles[k], model)

----------------------------------------------------------------------------
(* Properties of analyze_column_with_ai *)

\* the response is an object that has a numeric confidence_score and one of
\* the six type names as suggested_classification
WellFormed(r) ==
    /\ r.kind = "text"
    /\ r.text.fence # "other"
    /\ r.text.body.json = "object"
    /\ r.text.body.payload.confidence_score.t = "num"
    /\ r.text.body.payload.suggested_classification.t = "str"
    /\ r.text.body.payload.suggested_classification.v \in TypeNames

ProposedType(r) ==
    CHOOSE dt \in DataType :
        TypeValue(dt) = r.text.body.payload.suggested_classification.v

ProposedConfidence(r) == r.text.body.payload.confidence_score.v

\* C8: with the advisory enabled and answering in the required shape, the
\* returned data_type is the proposed type if the confidence is above 0.8
\* and the proposed type differs from the pattern type, and the pattern type
\* otherwise.
C8_MergeRule ==
    (ai_pc = "returned" /\ ai_enabled /\ WellFormed(response)) =>
        final_profile.data_type =
            IF ProposedConfidence(response) > CONFIDENCE_THRESHOLD
                   /\ ProposedType(response) # pattern_only
            THEN ProposedType(response)
            ELSE pattern_only

C8_Witness ==
    /\ ai_pc = "returned"
    /\ ai_enabled
    /\ WellFormed(response)
    /\ ProposedConfidence(response) = 81
    /\ final_profile.data_type # pattern_only

\* C9: with the advisory disabled or its call raising, nothing is raised,
\* the returned data_type is the pattern type, and the insight is the
\* fallback: confidence 0.6, classification the pattern type, the reason in
\* data_quality_notes.
C9_AdvisoryFailureIsTransparent ==
    /\ ai_pc # "raised"
    /\ (ai_pc = "returned" /\ (~ai_enabled \/ response.kind = "exception")) =>
           /\ final_profile.data_type = pattern_only
           /\ ai_insight.confidence_score = FALLBACK_CONFIDENCE
           /\ ~(ai_insight.confidence_score > CONFIDENCE_THRESHOLD)
           /\ ai_insight.ai_classification = pattern_only
           /\ ai_insight.data_quality_notes =
                  IF ai_enabled THEN response.exc.msg ELSE "AI disabled"

C9_Witness ==
    /\ ai_pc = "returned"
    /\ ai_enabled
    /\ response.kind = "exception"
    /\ response.exc.msg = "timeout"
    /\ final_profile.data_type = pattern_only

\* the response does not have the required shape
Malformed(r) ==
    /\ r.kind = "text"
    /\ \/ r.text.fence = "other"
       \/ r.text.body.json # "object"
       \/ r.text.body.payload.confidence_score.t = "absent"
       \/ r.text.body.payload.suggested_classification.t # "str"
       \/ r.text.body.payload.suggested_classification.v \notin TypeNames

\* C10: a response that does not have the required shape leaves the
\* data_type at the pattern type and yields the fallback insight with its
\* reason.
C10_MalformedIsNoOverride ==
    (ai_pc = "returned" /\ ai_enabled /\ Malformed(response)) =>
        /\ final_profile.data_type = pattern_only
        /\ ai_insight.reasoning = "Pattern-only"
        /\ ai_insight.data_quality_notes # ""

----------------------------------------------------------------------------
(* Further properties of generate_model *)

\* the name the Satellite pass gives the Satellite of a profile
SatelliteNameOf(m, profile) ==
    m.hubs[1].name \o <<"_">> \o Upper(profile.suggested_name)
        \o <<"_", "S", "A", "T">>

\* the profile a Satellite was created for: the first descriptive profile
\* of the list that yields the Satellite's name
CreatorOf(s, m) ==
    LET ks == {k \in 1..Len(column_profiles) :
                   /\ IsDescriptive(column_profiles[k])
                   /\ SatelliteNameOf(m, column_profiles[k]) = s.name}
    IN  column_profiles[CHOOSE k \in ks : \A j \in ks : k <= j]

\* C18: a Satellite created for a column with a pii_level other than NONE has
\* satellite_type PII and is counted in pii_satellites_created; one created
\* for a column with pii_level NONE has another type.
C18_PiiSatellitesTyped ==
    pc = "done" =>
        /\ \A s \in Range(model.satellites) :
               (CreatorOf(s, model).pii_level # "NONE") <=> (s.satellite_type = "pii")
        /\ model.pii_satellites_created =
               Cardinality({k \in 1..Len(model.satellites) :
                   CreatorOf(model.satellites[k], model).pii_level # "NONE"})

\* C19: every Link of the model has at least two entries in hub_references.
C19_LinkHasTwoReferences ==
    model # NoModel =>
        \A l \in Range(model.links) : Len(l.hub_references) >= 2

C19_Witness ==
    /\ pc = "done"
    /\ Len(model.links) >= 2

\* C20: every Link's hub_references is sorted without duplicates, holds
\* exactly the upper-cased names of a referencing column and of its
\* references, and joined by underscore gives the Link's name.
C20_LinkReferencesSortedDistinct ==
    pc = "done" =>
        \A l \in Range(model.links) :
            /\ \A j, k \in 1..Len(l.hub_references) :
                   j < k => StrLess(l.hub_references[j], l.hub_references[k])
            /\ l.name = Join(l.hub_references, <<"_">>)
            /\ \E n \in 1..Len(column_profiles) :
                   /\ column_profiles[n].references # <<>>
                   /\ Range(l.hub_references) =
                          {Upper(column_profiles[n].suggested_name)}
                              \cup {Upper(r) : r \in Range(column_profiles[n].references)}

----------------------------------------------------------------------------
(* Further properties of analyze_column_with_ai *)

\* C11: analyze_column_with_ai eventually returns, also when the advisory
\* collaborator never responds.
C11_AdvisoryCallBounded == <>(ai_pc = "returned")

----------------------------------------------------------------------------
(* Properties of AIDataClassifier.analyze_column *)

\* C14: analyze_column returns a ColumnProfile for every name that is a
\* column of the table, whatever the values and the headers of the table,
\* and fails with a not-found error (KeyError) for every other name.
C14_RaisesOnlyForMissingColumn ==
    \A k \in 1..Len(calls) :
        IF calls[k].col \in Range(Headers(table))
        THEN calls[k].result.ok
        ELSE ~calls[k].result.ok /\ calls[k].result.exc.type = "KeyError"

\* the column holds a value that is a well-formed email address
HoldsEmail(df, col) ==
    \E k \in 1..Len(StrSeries(df, col)) : MatchEmail(StrSeries(df, col)[k])

\* C15: a column holding at least one well-formed email value is given
\* pii_level HIGH, whatever its name, its other values and its number of
\* rows relative to sample_size.
C15_EmailIsHighPii ==
    \A k \in 1..Len(calls) :
        (/\ calls[k].col \in Range(Headers(table))
         /\ HoldsEmail(table, calls[k].col)
         /\ calls[k].result.ok)
            => calls[k].result.value.pii_level = "HIGH"

WorkersAgreeWithSequential ==
    \A w \in Workers :
        w_pc[w] = "done"
            => w_result[w] = AnalyzeColumn(table, w_col[w], sample_size, shuffle)

\* C17: analyze_column writes neither the table nor the classifier
\* instance, and under every interleaving of concurrent workers each call
\* returns the profile a sequential call returns for its column.
C17_NoSharedMutableState ==
    /\ []WorkersAgreeWithSequential
    /\ [][table' = table /\ sample_size' = sample_size]_vars

\* one worker has returned a profile while another one is inside its call
\* for a different column
C17_Witness ==
    \E v, w \in Workers :
        /\ v # w
        /\ w_pc[v] = "done"
        /\ w_result[v].ok
        /\ w_pc[w] = "sampled"
        /\ w_col[w] # w_col[v]
        /\ w_sample[w] # w_sample[v]

----------------------------------------------------------------------------
(* Properties of the batch entry points and of main *)

RECURSIVE NonFailing(_, _, _, _)
\* the profiles analyze_column returns for the first k columns of df, the
\* columns it raises for being left out
NonFailing(df, k, size, order) ==
    IF k = 0 THEN <<>>
    ELSE LET result == AnalyzeColumn(df, Headers(df)[k], size, order)
         IN  IF result.ok
             THEN Append(NonFailing(df, k - 1, size, order), result.value)
             ELSE NonFailing(df, k - 1, size, order)

\* a profile without the field the advisory may override
PatternFields(profile) == [profile EXCEPT !.data_type = "TEXT"]

\* C12: in run_classification and in analyze_dataframe_hybrid no exception
\* leaves the batch call, and after k columns the list holds exactly the
\* profiles of the non-failing ones among them, in column order.
C12_BatchIsBestEffort ==
    /\ main_pc # "raised"
    /\ escaped = NoException
    /\ entry \in {"main", "run_classification"}
           => profiles = NonFailing(table, col_i, RUN_SAMPLE_SIZE, shuffle)
    /\ entry = "hybrid"
           => MapSeq(results, LAMBDA r : PatternFields(r[1]))
                  = MapSeq(NonFailing(table, col_i, sample_size, shuffle),
                           PatternFields)

\* the input has zero rows or zero columns
EmptyInput(inp) ==
    \/ inp.kind = "no_data"
    \/ inp.kind = "csv" /\ (Len(inp.table) = 0 \/ NumRows(inp.table) = 0)

\* C13: on an input of zero rows or zero columns main classifies no
\* column, generates no model, saves nothing, and exits with status 1.
C13_EmptyInputIsFatal ==
    (entry = "main" /\ EmptyInput(input))
        => /\ main_pc \in {"start", "exited"}
           /\ col_i = 0
           /\ profiles = <<>>
           /\ vault = NoModel
           /\ ~saved
           /\ main_pc = "exited" => exit_status = 1

\* main has exited on a file that holds a header line and no rows
C13_Witness ==
    /\ entry = "main"
    /\ input.kind = "csv"
    /\ EmptyInput(input)
    /\ main_pc = "exited"
    /\ exit_status = 1

----------------------------------------------------------------------------
(* Properties of the three passes of generate_model *)

\* the profile is one a Hub is created for
HubCandidate(profile) ==
    \/ profile.is_primary_key
    \/ profile.is_business_key
    \/ profile.data_type = "IDENTIFIER"
    \/ profile.data_type = "BUSINESS_KEY"

\* the positions of the list whose profile is the first Hub candidate of its
\* upper-cased name
FirstCandidates(ps) ==
    {k \in 1..Len(ps) :
        /\ HubCandidate(ps[k])
        /\ \A j \in 1..(k - 1) :
               HubCandidate(ps[j])
                   => Upper(ps[j].suggested_name) # Upper(ps[k].suggested_name)}

\* the n-th smallest element of a set of numbers
NthOf(S, n) == CHOOSE k \in S : Cardinality({j \in S : j <= k}) = n

\* C21: the model has exactly one Hub per distinct upper-cased name of a Hub
\* candidate, in order of first occurrence; the Hub's business_keys is the
\* one-element list of the first candidate's suggested_name and its hash_key
\* is its name followed by _HK.
C21_HubsAreFirstWins ==
    pc = "done" =>
        LET first == FirstCandidates(column_profiles)
        IN  /\ Len(model.hubs) = Cardinality(first)
            /\ \A n \in 1..Len(model.hubs) :
                   LET seed == column_profiles[NthOf(first, n)]
                       hub  == model.hubs[n]
                   IN  /\ hub.name = Upper(seed.suggested_name)
                       /\ hub.business_keys = <<seed.suggested_name>>
                       /\ hub.hash_key = hub.name \o <<"_", "H", "K">>

\* two Hub candidates whose names differ by case only, after another Hub
C21_Witness ==
    /\ pc = "done"
    /\ Len(model.hubs) = 2
    /\ \E j, k \in 1..Len(column_profiles) :
           /\ j < k
           /\ HubCandidate(column_profiles[j])
           /\ HubCandidate(column_profiles[k])
           /\ column_profiles[j].suggested_name # column_profiles[k].suggested_name
           /\ Upper(column_profiles[j].suggested_name)
                  = Upper(column_profiles[k].suggested_name)

\* the profile is neither a key nor a holder of references
Plain(profile) ==
    /\ ~profile.is_primary_key
    /\ ~profile.is_business_key
    /\ profile.references = <<>>

\* the first plain profile of the list with the Satellite name of ps[k]
FirstPlainLike(ps, k) ==
    ps[CHOOSE j \in 1..k :
           /\ Plain(ps[j])
           /\ Upper(ps[j].suggested_name) = Upper(ps[k].suggested_name)
           /\ \A i \in 1..(j - 1) :
                  Plain(ps[i]) => Upper(ps[i].suggested_name)
                                      # Upper(ps[k].suggested_name)]

\* C22: when the model has a Hub, every plain profile has a Satellite named
\* {first Hub}_{NAME}_SAT whose parent_table is the first Hub's name and
\* whose columns is the suggested_name of the first plain profile of that
\* name; every Satellite is one of these, and no two share a name.
C22_SatellitesOnFirstHub ==
    (pc = "done" /\ Len(model.hubs) >= 1) =>
        /\ \A k \in 1..Len(column_profiles) :
               Plain(column_profiles[k]) =>
                   \E s \in Range(model.satellites) :
                       /\ s.name = SatelliteNameOf(model, column_profiles[k])
                       /\ s.parent_table = model.hubs[1].name
                       /\ s.columns =
                              <<FirstPlainLike(column_profiles, k).suggested_name>>
        /\ \A s \in Range(model.satellites) :
               /\ s.parent_table = model.hubs[1].name
               /\ \E k \in 1..Len(column_profiles) :
                      /\ Plain(column_profiles[k])
                      /\ s.name = SatelliteNameOf(model, column_profiles[k])
        /\ \A j, k \in 1..Len(model.satellites) :
               j # k => model.satellites[j].name # model.satellites[k].name

\* two Hubs, and two different plain profiles of one Satellite name
C22_Witness ==
    /\ pc = "done"
    /\ Len(model.hubs) >= 2
    /\ Len(model.satellites) = 1
    /\ \E j, k \in 1..Len(column_profiles) :
           /\ j < k
           /\ Plain(column_profiles[j])
           /\ Plain(column_profiles[k])
           /\ column_profiles[j] # column_profiles[k]
           /\ Upper(column_profiles[j].suggested_name)
                  = Upper(column_profiles[k].suggested_name)

\* C23: when no profile of the list is a Hub candidate, the returned model
\* has no Hub and no Satellite.
C23_NoHubNoSatellite ==
    (pc = "done" /\ \A k \in 1..Len(column_profiles) :
                        ~HubCandidate(column_profiles[k]))
        => (model.hubs = <<>> /\ model.satellites = <<>>)

\* a list without Hub candidates that holds a plain profile and yields a Link
C23_Witness ==
    /\ pc = "done"
    /\ \A k \in 1..Len(column_profiles) : ~HubCandidate(column_profiles[k])
    /\ \E k \in 1..Len(column_profiles) : Plain(column_profiles[k])
    /\ Len(model.links) >= 1
    /\ model.hubs = <<>>

\* list q is list p with entries appended
Extends(q, p) == Len(q) >= Len(p) /\ SubSeq(q, 1, Len(p)) = p

\* C24: the Link pass and the Satellite pass leave the Hubs as they are, the
\* Satellite pass and the Hub pass leave the Links as they are, the Hub pass
\* and the Link pass leave the Satellites as they are, and each pass only
\* appends to its own list.
C24_PassesKeepOtherTables ==
    [][(model # NoModel /\ model' # NoModel /\ pc \in {"hubs", "links", "sats"}) =>
           /\ pc # "hubs" => model'.hubs = model.hubs
           /\ pc # "links" => model'.links = model.links
           /\ pc # "sats" => model'.satellites = model.satellites
           /\ Extends(model'.hubs, model.hubs)
           /\ Extends(model'.links, model.links)
           /\ Extends(model'.satellites, model.satellites)]_vars

\* the Satellite pass running on a model that holds Hubs, Links and a
\* Satellite
C24_Witness ==
    /\ pc = "sats"
    /\ Len(model.hubs) >= 1
    /\ Len(model.links) >= 1
    /\ Len(model.satellites) >= 1

\* the profile a Satellite was created for: the first plain profile of the
\* list that yields the Satellite's name
SeedOf(s, m) ==
    LET ks == {k \in 1..Len(column_profiles) :
                   /\ Plain(column_profiles[k])
                   /\ SatelliteNameOf(m, column_profiles[k]) = s.name}
    IN  column_profiles[CHOOSE k \in ks : \A j \in ks : k <= j]

\* C27: no Satellite of the returned model is created for a Hub candidate
\* (is_primary_key, is_business_key, or data_type IDENTIFIER or
\* BUSINESS_KEY) or for a column that holds references.
C27_SatellitesAreDescriptive ==
    pc = "done" =>
        \A s \in Range(model.satellites) :
            /\ ~HubCandidate(SeedOf(s, model))
            /\ SeedOf(s, model).references = <<>>

----------------------------------------------------------------------------
(* The frame of the advisory merge *)

\* C30: the profile analyze_column_with_ai returns equals the profile of the
\* pattern pass in every field but data_type, also when data_type was
\* overridden.
C30_MergeChangesTypeOnly ==
    ai_pc = "returned" =>
        /\ final_profile.suggested_name  = pattern0.suggested_name
        /\ final_profile.is_primary_key  = pattern0.is_primary_key
        /\ final_profile.is_business_key = pattern0.is_business_key
        /\ final_profile.references      = pattern0.references
        /\ final_profile.pii_level       = pattern0.pii_level
        /\ final_profile.unique_ratio    = pattern0.unique_ratio
        /\ final_profile.sample_values   = pattern0.sample_values

\* an override from IDENTIFIER that left is_primary_key set
C30_Witness ==
    /\ ai_pc = "returned"
    /\ pattern0.data_type = "IDENTIFIER"
    /\ final_profile.data_type # "IDENTIFIER"
    /\ final_profile.is_primary_key

----------------------------------------------------------------------------
(* Properties of the pattern pass on one column *)

\* call j named a column of the table and returned a profile
Returned(j) ==
    /\ calls[j].col \in Range(Headers(table))
    /\ calls[j].result.ok

\* the sample call j drew
DrawnFor(j) == DrawSample(table, calls[j].col, calls[j].sample_size, shuffle)

IdRule(col, s)   == RatioAbove(s, 9, 10) /\ EndsWithCI(col, <<"i", "d">>)
DateRule(col)    == \E w \in DateWords : ContainsCI(col, w)
AllNumeric(s)    == \A k \in 1..Len(s) : MatchNumeric(s[k])
AllBoolean(s)    == \A k \in 1..Len(s) : MatchBoolean(s[k])
AllZeroOrOne(s)  == \A k \in 1..Len(s) : s[k] \in {<<"0">>, <<"1">>}

\* C25: the data type is the first of IDENTIFIER (unique_ratio > 0.9 and a
\* name ending in id, with is_primary_key set), DATE (a date keyword in the
\* name), NUMERIC (every sampled value a number literal), BOOLEAN (every
\* sampled value one of true/false/0/1), TEXT whose rule holds; so a column
\* with a date keyword is DATE even when its values are numeric, and a
\* column of 0/1 values is NUMERIC, not BOOLEAN.
C25_TypeByPriority ==
    \A j \in 1..Len(calls) :
        Returned(j) =>
            LET col == calls[j].col
                s   == DrawnFor(j)
                p   == calls[j].result.value
            IN  /\ IdRule(col, s) =>
                       p.data_type = "IDENTIFIER" /\ p.is_primary_key
                /\ (~IdRule(col, s) /\ DateRule(col)) => p.data_type = "DATE"
                /\ (~IdRule(col, s) /\ ~DateRule(col) /\ AllNumeric(s)) =>
                       p.data_type = "NUMERIC"
                /\ (~IdRule(col, s) /\ ~DateRule(col) /\ ~AllNumeric(s)
                        /\ AllBoolean(s)) => p.data_type = "BOOLEAN"
                /\ (~IdRule(col, s) /\ ~DateRule(col) /\ ~AllNumeric(s)
                        /\ ~AllBoolean(s)) => p.data_type = "TEXT"
                /\ (~IdRule(col, s) /\ ~DateRule(col) /\ AllZeroOrOne(s)) =>
                       p.data_type = "NUMERIC"

\* a column of several 1s under a name without keyword came out NUMERIC
C25_Witness ==
    \E j \in 1..Len(calls) :
        /\ Returned(j)
        /\ calls[j].col = <<"a">>
        /\ Len(DrawnFor(j)) > 1
        /\ AllZeroOrOne(DrawnFor(j))
        /\ calls[j].result.value.data_type = "NUMERIC"

NameRule(col) ==
    \/ \E w \in BusinessSuffixes : EndsWithCI(col, w)
    \/ ContainsCI(col, <<"d", "e", "p", "t">>)

\* more than half of the sample matches the short-code pattern
MostlyCodes(s) ==
    2 * Cardinality({k \in 1..Len(s) : MatchCode(s[k])}) > Len(s)

\* C26: is_business_key is true exactly when the name rule holds, or the
\* type is TEXT and one of: unique_ratio < 0.3 with more than 10 sampled
\* values mostly short codes; unique_ratio < 0.1 with fewer than 20 distinct
\* values; unique_ratio < 0.5.  For a type other than TEXT it is true only
\* through the name rule.
C26_BusinessKeyRules ==
    \A j \in 1..Len(calls) :
        Returned(j) =>
            LET col == calls[j].col
                s   == DrawnFor(j)
                p   == calls[j].result.value
                text == p.data_type = "TEXT"
            IN  /\ p.is_business_key =
                       (\/ NameRule(col)
                        \/ text /\ RatioBelow(s, 3, 10) /\ Len(s) > 10
                               /\ MostlyCodes(s)
                        \/ text /\ RatioBelow(s, 1, 10) /\ NUnique(s) < 20
                        \/ text /\ RatioBelow(s, 1, 2))
                /\ ~text => (p.is_business_key = NameRule(col))

\* more than 10 sampled values, mostly short codes, few of them distinct,
\* under a name without keyword: a business key by the values alone
C26_Witness ==
    \E j \in 1..Len(calls) :
        /\ Returned(j)
        /\ ~NameRule(calls[j].col)
        /\ Len(DrawnFor(j)) > 10
        /\ NUnique(DrawnFor(j)) > 1
        /\ MostlyCodes(DrawnFor(j))
        /\ calls[j].result.value.data_type = "TEXT"
        /\ calls[j].result.value.is_business_key

\* C29: every profile analyze_column returns has is_primary_key true exactly
\* when data_type is IDENTIFIER, a data_type other than BUSINESS_KEY, a
\* unique_ratio between 0 and 1 that is 0 for an empty sample, and at most 5
\* sample_values.
C29_ProfileInvariant ==
    \A j \in 1..Len(calls) :
        calls[j].result.ok =>
            LET p == calls[j].result.value
            IN  /\ p.is_primary_key = (p.data_type = "IDENTIFIER")
                /\ p.data_type # "BUSINESS_KEY"
                /\ p.unique_ratio \in 0..100
                /\ DrawnFor(j) = <<>> => p.unique_ratio = 0
                /\ Len(p.sample_values) <= 5

\* a profile with 5 sample_values out of a longer sample
C29_Witness ==
    \E j \in 1..Len(calls) :
        /\ Returned(j)
        /\ Len(DrawnFor(j)) > 5
        /\ Len(calls[j].result.value.sample_values) = 5

\* the column of call j has no missing value and values that are all
\* distinct as text, in a table of at least one and at most sample_size rows
DistinctColumn(j) ==
    /\ calls[j].col \in Range(Headers(table))
    /\ NumRows(table) >= 1
    /\ NumRows(table) <= calls[j].sample_size
    /\ LET cells == ColumnNamed(table, calls[j].col)
       IN  /\ \A r \in 1..Len(cells) : cells[r].t # "nan"
           /\ \A r, q \in 1..Len(cells) :
                  PyStr(cells[r]) = PyStr(cells[q]) => r = q

\* the other columns of the table that hold at least one value
FilledOthers(j) ==
    {table[k].name : k \in {i \in 1..Len(table) :
                                /\ table[i].name # calls[j].col
                                /\ DropNa(table[i].values) # <<>>}}

\* C28: analyze_column on a column without missing values whose values are
\* all distinct, in a table of 1..sample_size rows, returns references
\* holding every other column that has a value, and generate_model names a
\* single Link after all of them.
C28_DistinctColumnReferencesOthers ==
    \A j \in 1..Len(calls) :
        DistinctColumn(j) =>
            /\ calls[j].result.ok
            /\ FilledOthers(j) \subseteq Range(calls[j].result.value.references)
            /\ FilledOthers(j) # {} =>
                   LET m == GenerateModelOf(<<calls[j].result.value>>)
                   IN  /\ Len(m.links) = 1
                       /\ \A other \in FilledOthers(j) :
                              Upper(other) \in Range(m.links[1].hub_references)

====
